---- MODULE Spec2Model ----
(***************************************************************************)
(* The four AVL rotations of rotating-tree.js (src/src/index.ts), the      *)
(* bound facade useRotatingTree and the deepCopy helper of the test        *)
(* fixtures, over a heap of RTNode objects.                                *)
(*                                                                         *)
(* An object identity is a number of Nodes; `undefined` is NIL.  The       *)
(* fields of the objects are the functions left, right and data.  A        *)
(* callback is modelled by its identity: invoking it appends to `log` the  *)
(* arguments it was given and the child links it could read at that time.  *)
(***************************************************************************)
EXTENDS Integers, Sequences, FiniteSets, TLC

\* Number of nodes of the largest tree the caller starts with.
MaxTree == 4

\* Number of objects the heap has room for: the caller's tree and the nodes
\* deepCopy creates.
MaxNodes == 6

\* Object identities.
Nodes == 1 .. MaxNodes

\* `undefined`: an absent child, an absent root.
NIL == 0

\* `undefined` passed (or left out) as a callback.
NoCb == "undefined"

\* The two functions of the caller: F is what it passes (or not) for a left
\* rotation, G what it passes (or not) for a right rotation.
F == "f"
G == "g"

OptLeft == {NoCb, F}
OptRight == {NoCb, G}

\* The i-th payload of the fixtures: 'a', 'b', 'c', ...
Letter(i) == <<"a", "b", "c", "d", "e", "f", "g", "h">>[i]

\* data of an identity that is not an object (yet).
NoData == "-"

VARIABLES
    alloc,      \* the identities that are objects
    left,       \* RTNode.left  of every object (NIL: undefined)
    right,      \* RTNode.right of every object (NIL: undefined)
    data,       \* RTNode.data  of every object
    root,       \* the caller's reference to the root of its tree
    copyRoot,   \* the caller's reference to the root of the deep copy
    rotator,    \* the callbacks captured by the object useRotatingTree returned
    pc,         \* "idle", or "returned": a call returned, its result not yet stored
    last,       \* the call that returned: operation, argument, callbacks passed
    ret,        \* what that call returned
    pre,        \* alloc, left, right, data as they were when that call started
    log,        \* the callback invocations of that call, in order
    inorder0,   \* in-order sequence of the caller's tree at the start
    copyInorder0 \* in-order sequence of the deep copy when it was made

vars == <<alloc, left, right, data, root, copyRoot, rotator, pc, last, ret, pre, log,
          inorder0, copyInorder0>>

----------------------------------------------------------------------------
(* The heap a function works on, and the invocations it has made.          *)

Mem == [alloc |-> alloc, left |-> left, right |-> right, data |-> data, log |-> <<>>]

\* onRotate(x, y): the observer sees its two arguments and the links as
\* they are at this moment.
Invoke(m, cb, x, y) ==
    [m EXCEPT !.log = Append(@, [cb |-> cb, args |-> <<x, y>>,
                                 left |-> m.left, right |-> m.right])]

\* singleLeft with `a.right = b.right` for `a.right = b.left`.
SingleLeftWrongChild(m, a, onRotate) ==
    IF m.right[a] = NIL THEN [m |-> m, ret |-> a]
    ELSE LET b  == m.right[a]
             m1 == IF onRotate # NoCb THEN Invoke(m, onRotate, a, b) ELSE m
             m2 == [m1 EXCEPT !.right[a] = m1.right[b]]
             m3 == [m2 EXCEPT !.left[b] = a]
         IN  [m |-> m3, ret |-> b]

\* singleLeft that calls onRotate before it looks for the right child.
SingleLeftEagerCallback(m, a, onRotate) ==
    LET b  == m.right[a]
        m1 == IF onRotate # NoCb THEN Invoke(m, onRotate, a, b) ELSE m
    IN  IF b = NIL THEN [m |-> m1, ret |-> a]
        ELSE [m |-> [m1 EXCEPT !.right[a] = m1.left[b], !.left[b] = a], ret |-> b]

\* singleLeft that calls onRotate after the relink instead of before it.
SingleLeftLateCallback(m, a, onRotate) ==
    IF m.right[a] = NIL THEN [m |-> m, ret |-> a]
    ELSE LET b  == m.right[a]
             m2 == [m EXCEPT !.right[a] = m.left[b]]
             m3 == [m2 EXCEPT !.left[b] = a]
             m4 == IF onRotate # NoCb THEN Invoke(m3, onRotate, a, b) ELSE m3
         IN  [m |-> m4, ret |-> b]

\* singleLeft(a, onRotate)
SingleLeft(m, a, onRotate) ==
    IF m.right[a] = NIL THEN [m |-> m, ret |-> a]
    ELSE LET b  == m.right[a]
             m1 == IF onRotate # NoCb THEN Invoke(m, onRotate, a, b) ELSE m
             m2 == [m1 EXCEPT !.right[a] = m1.left[b]]
             m3 == [m2 EXCEPT !.left[b] = a]
         IN  [m |-> m3, ret |-> b]

\* singleRight that passes (c, b) to onRotate, as its parameter names read.
SingleRightSwappedArgs(m, c, onRotate) ==
    IF m.left[c] = NIL THEN [m |-> m, ret |-> c]
    ELSE LET b  == m.left[c]
             m1 == IF onRotate # NoCb THEN Invoke(m, onRotate, c, b) ELSE m
             m2 == [m1 EXCEPT !.left[c] = m1.right[b]]
             m3 == [m2 EXCEPT !.right[b] = c]
         IN  [m |-> m3, ret |-> b]

\* singleRight with `c.left = b.left` for `c.left = b.right`.
SingleRightWrongChild(m, c, onRotate) ==
    IF m.left[c] = NIL THEN [m |-> m, ret |-> c]
    ELSE LET b  == m.left[c]
             m1 == IF onRotate # NoCb THEN Invoke(m, onRotate, b, c) ELSE m
             m2 == [m1 EXCEPT !.left[c] = m1.left[b]]
             m3 == [m2 EXCEPT !.right[b] = c]
         IN  [m |-> m3, ret |-> b]

\* singleRight(c, onRotate)
SingleRight(m, c, onRotate) ==
    IF m.left[c] = NIL THEN [m |-> m, ret |-> c]
    ELSE LET b  == m.left[c]
             m1 == IF onRotate # NoCb THEN Invoke(m, onRotate, b, c) ELSE m
             m2 == [m1 EXCEPT !.left[c] = m1.right[b]]
             m3 == [m2 EXCEPT !.right[b] = c]
         IN  [m |-> m3, ret |-> b]

\* doubleLeft that gives up when the right child has no left child.
DoubleLeftNeedsGrandchild(m, a, onLeft, onRight) ==
    IF m.right[a] = NIL \/ m.left[m.right[a]] = NIL THEN [m |-> m, ret |-> a]
    ELSE LET r  == SingleRight(m, m.right[a], onRight)
             m1 == [r.m EXCEPT !.right[a] = r.ret]
         IN  SingleLeft(m1, a, onLeft)

\* doubleLeft that forgets `a.right =` in front of the inner rotation.
DoubleLeftNoAssign(m, a, onLeft, onRight) ==
    IF m.right[a] = NIL THEN [m |-> m, ret |-> a]
    ELSE LET r  == SingleRight(m, m.right[a], onRight)
         IN  SingleLeft(r.m, a, onLeft)

\* doubleLeft(a, onLeft, onRight)
DoubleLeft(m, a, onLeft, onRight) ==
    IF m.right[a] = NIL THEN [m |-> m, ret |-> a]
    ELSE LET r  == SingleRight(m, m.right[a], onRight)
             m1 == [r.m EXCEPT !.right[a] = r.ret]
         IN  SingleLeft(m1, a, onLeft)

\* doubleRight that forgets `c.left =` in front of the inner rotation.
DoubleRightNoAssign(m, c, onLeft, onRight) ==
    IF m.left[c] = NIL THEN [m |-> m, ret |-> c]
    ELSE LET r  == SingleLeft(m, m.left[c], onLeft)
         IN  SingleRight(r.m, c, onRight)

\* doubleRight(c, onLeft, onRight)
DoubleRight(m, c, onLeft, onRight) ==
    IF m.left[c] = NIL THEN [m |-> m, ret |-> c]
    ELSE LET r  == SingleLeft(m, m.left[c], onLeft)
             m1 == [r.m EXCEPT !.left[c] = r.ret]
         IN  SingleRight(m1, c, onRight)

----------------------------------------------------------------------------
(* useRotatingTree(onLeft, onRight): the returned object closes over the   *)
(* two callbacks; its four methods take the root only.                     *)

UseRotatingTree(onLeft, onRight) == [onLeft |-> onLeft, onRight |-> onRight]

RotatorSingleLeft(rot, m, a) == SingleLeft(m, a, rot.onLeft)

RotatorSingleRight(rot, m, c) == SingleRight(m, c, rot.onRight)

RotatorDoubleLeft(rot, m, a) == DoubleLeft(m, a, rot.onLeft, rot.onRight)

\* rotate.doubleRight with the two callbacks passed in the wrong order.
RotatorDoubleRightSwapped(rot, m, c) == DoubleRight(m, c, rot.onRight, rot.onLeft)

RotatorDoubleRight(rot, m, c) == DoubleRight(m, c, rot.onLeft, rot.onRight)

----------------------------------------------------------------------------
(* deepCopy(root): `root && {...root, left: deepCopy(root.left), right:     *)
(* deepCopy(root.right)}`.  The object literal is a new object; the spread *)
(* copies root's own fields into it, then left and right are overwritten   *)
(* by the copies of the children, in that order.                           *)

\* The identity of the next object created.
Fresh(m) == CHOOSE n \in Nodes \ m.alloc : \A k \in Nodes \ m.alloc : n <= k

\* deepCopy that is only `root && {...root}`: the children are not copied.
DeepCopyShallow(m, x) ==
    IF x = NIL THEN [m |-> m, ret |-> NIL]
    ELSE LET n == Fresh(m)
         IN  [m |-> [m EXCEPT !.alloc = @ \cup {n}, !.data[n] = m.data[x],
                              !.left[n] = m.left[x], !.right[n] = m.right[x]],
              ret |-> n]

RECURSIVE DeepCopy(_, _)
DeepCopy(m, x) ==
    IF x = NIL THEN [m |-> m, ret |-> NIL]
    ELSE LET n  == Fresh(m)
             m0 == [m EXCEPT !.alloc = @ \cup {n}, !.data[n] = m.data[x],
                             !.left[n] = m.left[x], !.right[n] = m.right[x]]
             l  == DeepCopy(m0, m.left[x])
             m1 == [l.m EXCEPT !.left[n] = l.ret]
             r  == DeepCopy(m1, m.right[x])
             m2 == [r.m EXCEPT !.right[n] = r.ret]
         IN  [m |-> m2, ret |-> n]

----------------------------------------------------------------------------
(* The trees the caller starts with: every shape of 1 .. MaxTree nodes.    *)
(* Identities are given in in-order, so the in-order sequence of a tree    *)
(* of k nodes is 1, 2, ..., k at the start.                                *)

NoLinks == [n \in Nodes |-> NIL]

RECURSIVE TreesOn(_, _)
TreesOn(lo, hi) ==
    IF lo > hi THEN {[root |-> NIL, left |-> NoLinks, right |-> NoLinks]}
    ELSE UNION {
        {[root  |-> mid,
          left  |-> [n \in Nodes |-> IF n = mid THEN l.root
                                     ELSE IF n < mid THEN l.left[n] ELSE r.left[n]],
          right |-> [n \in Nodes |-> IF n = mid THEN r.root
                                     ELSE IF n < mid THEN l.right[n] ELSE r.right[n]]]
            : l \in TreesOn(lo, mid - 1), r \in TreesOn(mid + 1, hi)}
        : mid \in lo .. hi}

\* The payloads of a tree of k nodes: the fixtures' distinct letters in
\* in-order, or the same payload in every node.
Payloads(k) ==
    {[n \in Nodes |-> IF n <= k THEN Letter(n) ELSE NoData],
     [n \in Nodes |-> IF n <= k THEN Letter(1) ELSE NoData]}

\* No call has returned whose result is still to be stored.
NoCall == [op |-> "none", bound |-> FALSE, arg |-> NIL, onLeft |-> NoCb, onRight |-> NoCb]

NoPre == [alloc |-> {}, left |-> NoLinks, right |-> NoLinks,
          data |-> [n \in Nodes |-> NoData]]

\* In-order sequence of the tree below x; depth is the deepest level visited.
RECURSIVE InOrder(_, _, _, _)
InOrder(l, r, x, depth) ==
    IF x = NIL \/ depth = 0 THEN <<>>
    ELSE InOrder(l, r, l[x], depth - 1) \o <<x>> \o InOrder(l, r, r[x], depth - 1)

Init ==
    \E k \in 1 .. MaxTree :
      \E t \in TreesOn(1, k), d \in Payloads(k) :
        /\ alloc = 1 .. k
        /\ left = t.left
        /\ right = t.right
        /\ data = d
        /\ root = t.root
        /\ copyRoot = NIL
        /\ rotator = UseRotatingTree(F, G)
        /\ pc = "idle"
        /\ last = NoCall
        /\ ret = NIL
        /\ pre = NoPre
        /\ log = <<>>
        /\ inorder0 = InOrder(t.left, t.right, t.root, MaxNodes)
        /\ copyInorder0 = <<>>

----------------------------------------------------------------------------
(* The caller's steps.                                                     *)

\* A function of the library was called and returned r.
Returned(call, r) ==
    /\ pc = "idle"
    /\ alloc' = r.m.alloc
    /\ left' = r.m.left
    /\ right' = r.m.right
    /\ data' = r.m.data
    /\ log' = r.m.log
    /\ ret' = r.ret
    /\ pre' = [alloc |-> alloc, left |-> left, right |-> right, data |-> data]
    /\ last' = call
    /\ pc' = "returned"
    /\ UNCHANGED <<root, copyRoot, rotator, inorder0, copyInorder0>>

Call(op, x, onLeft, onRight) ==
    [op |-> op, bound |-> FALSE, arg |-> x, onLeft |-> onLeft, onRight |-> onRight]

BoundCall(op, x) ==
    [op |-> op, bound |-> TRUE, arg |-> x,
     onLeft |-> rotator.onLeft, onRight |-> rotator.onRight]

\* singleLeft(a) or singleLeft(a, F)
CallSingleLeft ==
    \E a \in alloc, onRotate \in OptLeft :
        Returned(Call("singleLeft", a, onRotate, NoCb), SingleLeft(Mem, a, onRotate))

\* singleRight(c) or singleRight(c, G)
CallSingleRight ==
    \E c \in alloc, onRotate \in OptRight :
        Returned(Call("singleRight", c, NoCb, onRotate), SingleRight(Mem, c, onRotate))

\* doubleLeft(a, onLeft, onRight), each callback passed or not
CallDoubleLeft ==
    \E a \in alloc, onLeft \in OptLeft, onRight \in OptRight :
        Returned(Call("doubleLeft", a, onLeft, onRight),
                 DoubleLeft(Mem, a, onLeft, onRight))

\* doubleRight(c, onLeft, onRight), each callback passed or not
CallDoubleRight ==
    \E c \in alloc, onLeft \in OptLeft, onRight \in OptRight :
        Returned(Call("doubleRight", c, onLeft, onRight),
                 DoubleRight(Mem, c, onLeft, onRight))

\* rotate.singleLeft(a)
CallBoundSingleLeft ==
    \E a \in alloc :
        Returned(BoundCall("singleLeft", a), RotatorSingleLeft(rotator, Mem, a))

\* rotate.singleRight(c)
CallBoundSingleRight ==
    \E c \in alloc :
        Returned(BoundCall("singleRight", c), RotatorSingleRight(rotator, Mem, c))

\* rotate.doubleLeft(a)
CallBoundDoubleLeft ==
    \E a \in alloc :
        Returned(BoundCall("doubleLeft", a), RotatorDoubleLeft(rotator, Mem, a))

\* rotate.doubleRight(c)
CallBoundDoubleRight ==
    \E c \in alloc :
        Returned(BoundCall("doubleRight", c), RotatorDoubleRight(rotator, Mem, c))

\* singleRight(singleLeft(a, onLeft), onRight): the node singleLeft returned
\* goes straight into singleRight.
CallLeftThenRight ==
    \E a \in alloc, onLeft \in OptLeft, onRight \in OptRight :
        LET r1 == SingleLeft(Mem, a, onLeft)
        IN  Returned(Call("singleLeft;singleRight", a, onLeft, onRight),
                     SingleRight(r1.m, r1.ret, onRight))

\* deepCopy(root) of the caller's tree, or deepCopy(undefined).  One copy of
\* the tree is made, and only when the heap has room for it.
CallDeepCopy ==
    /\ copyRoot = NIL
    /\ \E x \in {root, NIL} :
         /\ x # NIL => 2 * Cardinality(alloc) <= MaxNodes
         /\ Returned(Call("deepCopy", x, NoCb, NoCb), DeepCopy(Mem, x))

\* The caller puts the node a rotation returned where the rotated node was:
\* in the parent's link, or in its own reference to the root.
Splice ==
    /\ pc = "returned"
    /\ last.op # "deepCopy"
    /\ root' = IF root = last.arg THEN ret ELSE root
    /\ copyRoot' = IF copyRoot = last.arg THEN ret ELSE copyRoot
    /\ left' = [n \in Nodes |-> IF n \in alloc /\ pre.left[n] = last.arg
                                THEN ret ELSE left[n]]
    /\ right' = [n \in Nodes |-> IF n \in alloc /\ pre.right[n] = last.arg
                                 THEN ret ELSE right[n]]
    /\ pc' = "idle"
    /\ last' = NoCall
    /\ ret' = NIL
    /\ pre' = NoPre
    /\ log' = <<>>
    /\ UNCHANGED <<alloc, data, rotator, inorder0, copyInorder0>>

\* const copy = deepCopy(...): the caller keeps the copy.
KeepCopy ==
    /\ pc = "returned"
    /\ last.op = "deepCopy"
    /\ copyRoot' = ret
    /\ copyInorder0' = InOrder(left, right, ret, MaxNodes)
    /\ pc' = "idle"
    /\ last' = NoCall
    /\ ret' = NIL
    /\ pre' = NoPre
    /\ log' = <<>>
    /\ UNCHANGED <<alloc, left, right, data, root, rotator, inorder0>>

Next ==
    \/ CallSingleLeft
    \/ CallSingleRight
    \/ CallDoubleLeft
    \/ CallDoubleRight
    \/ CallBoundSingleLeft
    \/ CallBoundSingleRight
    \/ CallBoundDoubleLeft
    \/ CallBoundDoubleRight
    \/ CallLeftThenRight
    \/ CallDeepCopy
    \/ Splice
    \/ KeepCopy

Spec == Init /\ [][Next]_vars

----------------------------------------------------------------------------
(* What the properties below read.                                         *)

\* The heap as it was when the call that returned started.
PreMem == [alloc |-> pre.alloc, left |-> pre.left, right |-> pre.right,
           data |-> pre.data, log |-> <<>>]

\* A call of op has returned and its result is not stored yet.
AtReturn(op) == pc = "returned" /\ last.op = op

Rotations == {"singleLeft", "singleRight", "doubleLeft", "doubleRight"}

LinksUnchanged == left = pre.left /\ right = pre.right

\* The child links of every node outside S are as before the call.
LinksUnchangedOutside(S) ==
    \A n \in Nodes \ S : left[n] = pre.left[n] /\ right[n] = pre.right[n]

\* The arguments the callbacks were called with, in order.
LogCalls == [i \in 1 .. Len(log) |-> [cb |-> log[i].cb, args |-> log[i].args]]

\* The tree below x as a term of payloads: <<data, left term, right term>>.
RECURSIVE Term(_, _, _, _, _)
Term(l, r, d, x, depth) ==
    IF x = NIL \/ depth = 0 THEN <<>>
    ELSE <<d[x], Term(l, r, d, l[x], depth - 1), Term(l, r, d, r[x], depth - 1)>>

IsLeaf(l, r, x) == l[x] = NIL /\ r[x] = NIL

----------------------------------------------------------------------------
\* C1: for every node a with a right child b, singleLeft(a) returns b; after
\* the call b.left is a and a.right is what b.left was before (undefined if b
\* had no left child); a.left, b.right, the links of every other node and
\* every data payload are as before the call.
C1_SingleLeftRelinks ==
    (AtReturn("singleLeft") /\ pre.right[last.arg] # NIL) =>
        LET a == last.arg
            b == pre.right[a]
        IN  /\ ret = b
            /\ left[b] = a
            /\ right[a] = pre.left[b]
            /\ left[a] = pre.left[a]
            /\ right[b] = pre.right[b]
            /\ LinksUnchangedOutside({a, b})
            /\ data = pre.data
            /\ alloc = pre.alloc

\* singleLeft returned from a node that has a parent and whose right child
\* had a left child.
C1_Witness ==
    /\ AtReturn("singleLeft")
    /\ pre.right[last.arg] # NIL
    /\ pre.left[pre.right[last.arg]] # NIL
    /\ right[last.arg] = pre.left[pre.right[last.arg]]
    /\ \E p \in alloc : pre.left[p] = last.arg /\ left[p] = last.arg

\* C2: for every node c with a left child b, singleRight(c) returns b; after
\* the call b.right is c and c.left is what b.right was before; c.right,
\* b.left, the links of every other node and every data payload are as
\* before; a supplied callback is called with (b, c), in that order.
C2_SingleRightRelinks ==
    (AtReturn("singleRight") /\ pre.left[last.arg] # NIL) =>
        LET c == last.arg
            b == pre.left[c]
        IN  /\ ret = b
            /\ right[b] = c
            /\ left[c] = pre.right[b]
            /\ right[c] = pre.right[c]
            /\ left[b] = pre.left[b]
            /\ LinksUnchangedOutside({b, c})
            /\ data = pre.data
            /\ alloc = pre.alloc
            /\ last.onRight # NoCb =>
                 LogCalls = <<[cb |-> last.onRight, args |-> <<b, c>>]>>

\* singleRight(c, G) returned from a node that has a parent and whose left
\* child had a right child.
C2_Witness ==
    /\ AtReturn("singleRight")
    /\ pre.left[last.arg] # NIL
    /\ pre.right[pre.left[last.arg]] # NIL
    /\ last.onRight = G
    /\ Len(log) = 1
    /\ \E p \in alloc : pre.right[p] = last.arg /\ right[p] = last.arg

\* The child a rotation needs: a.right for the left ones, c.left for the
\* right ones.
RequiredChild ==
    IF last.op \in {"singleLeft", "doubleLeft"} THEN pre.right[last.arg]
    ELSE pre.left[last.arg]

\* C3: when the required child is absent (a.right for singleLeft and
\* doubleLeft, c.left for singleRight and doubleRight) the call returns the
\* node it was given, changes no child link of any node and calls no
\* callback.
C3_NoOpWhenChildAbsent ==
    (pc = "returned" /\ last.op \in Rotations /\ RequiredChild = NIL) =>
        /\ ret = last.arg
        /\ LinksUnchanged
        /\ data = pre.data
        /\ log = <<>>

\* doubleRight was called with both callbacks on a node that has a right
\* child and no left child, and returned.
C3_Witness ==
    /\ AtReturn("doubleRight")
    /\ pre.left[last.arg] = NIL
    /\ pre.right[last.arg] # NIL
    /\ last.onLeft = F /\ last.onRight = G
    /\ ret = last.arg

\* What a callback, when it was passed, is expected to be called with.
Supplied(cb, u, v) == IF cb = NoCb THEN <<>> ELSE <<[cb |-> cb, args |-> <<u, v>>]>>

\* The callback invocations the documentation promises for the call that
\* returned, read off the tree as it was before the call: one per
\* elementary rotation that has a child to rotate.
ExpectedCalls ==
    LET x == last.arg
    IN  CASE last.op = "singleLeft" ->
                IF pre.right[x] = NIL THEN <<>>
                ELSE Supplied(last.onLeft, x, pre.right[x])
          [] last.op = "singleRight" ->
                IF pre.left[x] = NIL THEN <<>>
                ELSE Supplied(last.onRight, pre.left[x], x)
          [] last.op = "doubleLeft" ->
                IF pre.right[x] = NIL THEN <<>>
                ELSE LET c == pre.right[x]
                         b == pre.left[c]
                     IN  IF b = NIL THEN Supplied(last.onLeft, x, c)
                         ELSE Supplied(last.onRight, b, c) \o Supplied(last.onLeft, x, b)
          [] last.op = "doubleRight" ->
                IF pre.left[x] = NIL THEN <<>>
                ELSE LET a == pre.left[x]
                         b == pre.right[a]
                     IN  IF b = NIL THEN Supplied(last.onRight, a, x)
                         ELSE Supplied(last.onLeft, a, b) \o Supplied(last.onRight, b, x)
          [] OTHER -> <<>>

\* What the i-th invoked callback saw: the parent still pointed to the child,
\* and the two links the rotation rewrites are, after the call, what the
\* rotation makes of the values seen.
SawPreRotationLinks(i) ==
    LET e == log[i]
        u == e.args[1]
        v == e.args[2]
    IN  IF e.cb = F
        THEN /\ e.right[u] = v
             /\ right[u] = e.left[v]
             /\ left[v] = u
        ELSE /\ e.left[v] = u
             /\ left[v] = e.right[u]
             /\ right[u] = v

\* C4: in a call of singleLeft, singleRight, doubleLeft or doubleRight each
\* supplied callback is called exactly once for every elementary rotation
\* performed and never for one that is a no-op, with (a, b) for a left and
\* (b, c) for a right rotation, and when it is called the two links that
\* rotation rewrites still have their values from before the rotation.
C4_CallbackOncePerRotation ==
    (pc = "returned" /\ last.op \in Rotations) =>
        /\ LogCalls = ExpectedCalls
        /\ \A i \in 1 .. Len(log) : SawPreRotationLinks(i)
        /\ (log # <<>> /\ (last.op \in {"singleLeft", "singleRight"}
                           \/ (last.onLeft # NoCb /\ last.onRight # NoCb))) =>
             (log[1].left = pre.left /\ log[1].right = pre.right)

\* doubleLeft returned after two elementary rotations, both callbacks called.
C4_Witness ==
    /\ AtReturn("doubleLeft")
    /\ Len(log) = 2
    /\ log[1].cb = G /\ log[2].cb = F
    /\ log[2].left # pre.left

----------------------------------------------------------------------------
(* The fixtures of the tests, as terms of payloads.                        *)

Leaf(d) == <<d, <<>>, <<>>>>

rightHeavy == <<"a", <<>>, <<"b", <<>>, Leaf("c")>>>>

leftHeavy == <<"c", <<"b", Leaf("a"), <<>>>>, <<>>>>

rightMiddleHeavy == <<"a", <<>>, <<"c", Leaf("b"), <<>>>>>>

leftMiddleHeavy == <<"c", <<"a", <<>>, Leaf("b")>>, <<>>>>

balanced == <<"b", Leaf("a"), Leaf("c")>>

\* The tree below the argument, before the call.
PreTerm == Term(pre.left, pre.right, pre.data, last.arg, MaxNodes)

\* The tree below the returned node.
RetTerm == Term(left, right, data, ret, MaxNodes)

\* Before the call the three nodes, with no other children, had the shape
\* the operation remedies, the call's argument on top.
Imbalanced(a, b, c) ==
    LET l == pre.left
        r == pre.right
    IN  CASE last.op = "singleLeft" ->
                /\ last.arg = a /\ r[a] = b /\ r[b] = c
                /\ l[a] = NIL /\ l[b] = NIL /\ IsLeaf(l, r, c)
          [] last.op = "singleRight" ->
                /\ last.arg = c /\ l[c] = b /\ l[b] = a
                /\ r[c] = NIL /\ r[b] = NIL /\ IsLeaf(l, r, a)
          [] last.op = "doubleLeft" ->
                /\ last.arg = a /\ r[a] = c /\ l[c] = b
                /\ l[a] = NIL /\ r[c] = NIL /\ IsLeaf(l, r, b)
          [] last.op = "doubleRight" ->
                /\ last.arg = c /\ l[c] = a /\ r[a] = b
                /\ r[c] = NIL /\ l[a] = NIL /\ IsLeaf(l, r, b)
          [] OTHER -> FALSE

\* The test: the remedy applied to its fixture.
RemedyOfFixture ==
    \/ last.op = "singleLeft" /\ PreTerm = rightHeavy
    \/ last.op = "singleRight" /\ PreTerm = leftHeavy
    \/ last.op = "doubleLeft" /\ PreTerm = rightMiddleHeavy
    \/ last.op = "doubleRight" /\ PreTerm = leftMiddleHeavy

\* C5: for three nodes a, b, c with no other children each remedy applied to
\* its imbalance (singleLeft to the right chain a-b-c, singleRight to the
\* left chain c-b-a, doubleLeft to a / right c / left b, doubleRight to
\* c / left a / right b) returns b with left child a and right child c,
\* both leaves; on the fixtures of the tests the result is `balanced`.
C5_RemediesBalance ==
    (pc = "returned" /\ last.op \in Rotations) =>
        /\ \A a \in Nodes, b \in Nodes, c \in Nodes :
              Imbalanced(a, b, c) =>
                  /\ ret = b
                  /\ left[b] = a /\ right[b] = c
                  /\ IsLeaf(left, right, a) /\ IsLeaf(left, right, c)
                  /\ RetTerm = <<data[b], Leaf(data[a]), Leaf(data[c])>>
        /\ RemedyOfFixture => RetTerm = balanced

\* doubleRight returned from the fixture leftMiddleHeavy.
C5_Witness ==
    /\ AtReturn("doubleRight")
    /\ PreTerm = leftMiddleHeavy
    /\ RetTerm = balanced
    /\ \E a \in Nodes, b \in Nodes, c \in Nodes : Imbalanced(a, b, c)

----------------------------------------------------------------------------
\* The outcome r of a function is what the call that returned produced.
SameOutcome(r) ==
    /\ ret = r.ret
    /\ alloc = r.m.alloc
    /\ left = r.m.left
    /\ right = r.m.right
    /\ data = r.m.data
    /\ log = r.m.log

\* a.right = singleRight(a.right, onRight); return singleLeft(a, onLeft)
\* done by hand on the tree as it was before the call.
ByHandDoubleLeft ==
    LET a  == last.arg
        r1 == SingleRight(PreMem, pre.right[a], last.onRight)
        m1 == [r1.m EXCEPT !.right[a] = r1.ret]
    IN  SingleLeft(m1, a, last.onLeft)

\* C6: for every node a with a right child, doubleLeft(a, onLeft, onRight)
\* has the returned root, final links and callback invocations of
\* a.right = singleRight(a.right, onRight) followed by singleLeft(a, onLeft);
\* on the zigzag a / right c / left b, onRight gets (b, c) before onLeft
\* gets (a, b); when a.right has no left child onRight is never called and
\* the outer left rotation is still performed.
C6_DoubleLeftIsComposition ==
    (AtReturn("doubleLeft") /\ pre.right[last.arg] # NIL) =>
        LET a == last.arg
            c == pre.right[a]
            b == pre.left[c]
        IN  /\ SameOutcome(ByHandDoubleLeft)
            /\ b # NIL =>
                 /\ LogCalls = Supplied(last.onRight, b, c) \o Supplied(last.onLeft, a, b)
                 /\ ret = b
            /\ b = NIL =>
                 /\ \A i \in 1 .. Len(log) : log[i].cb # G
                 /\ ret = c
                 /\ left[c] = a
                 /\ right[a] = NIL

\* doubleLeft(a, F, G) returned from a node whose right child has no left
\* child: only the outer rotation was made.
C6_Witness ==
    /\ AtReturn("doubleLeft")
    /\ pre.right[last.arg] # NIL
    /\ pre.left[pre.right[last.arg]] = NIL
    /\ last.onLeft = F /\ last.onRight = G
    /\ Len(log) = 1
    /\ ret = pre.right[last.arg]

\* The unbound function with the callbacks given to useRotatingTree passed
\* explicitly, on the tree as it was before the call.
Unbound ==
    CASE last.op = "singleLeft" -> SingleLeft(PreMem, last.arg, F)
      [] last.op = "singleRight" -> SingleRight(PreMem, last.arg, G)
      [] last.op = "doubleLeft" -> DoubleLeft(PreMem, last.arg, F, G)
      [] last.op = "doubleRight" -> DoubleRight(PreMem, last.arg, F, G)

\* C7: every operation of the object useRotatingTree(onLeft, onRight)
\* returned behaves as the unbound function with the callbacks passed
\* explicitly (same returned root, final links, callback invocations), on
\* every call made through that object.
C7_BoundAsUnbound ==
    /\ rotator = [onLeft |-> F, onRight |-> G]
    /\ (pc = "returned" /\ last.bound) => SameOutcome(Unbound)

\* rotate.doubleRight returned after two elementary rotations.
C7_Witness ==
    /\ AtReturn("doubleRight")
    /\ last.bound
    /\ Len(log) = 2
    /\ log[1].cb = F /\ log[2].cb = G

----------------------------------------------------------------------------
Range(seq) == {seq[i] : i \in 1 .. Len(seq)}

\* The nodes of the caller's tree, and those of the copy it keeps.
SourceNodes == Range(inorder0)
CopyNodes == Range(copyInorder0)

\* The nodes of S have the links and the payloads they had before the call.
Untouched(S) ==
    \A n \in S : left[n] = pre.left[n] /\ right[n] = pre.right[n] /\ data[n] = pre.data[n]

\* The nodes below the node deepCopy returned, in in-order.
CopyInOrder == InOrder(left, right, ret, MaxNodes + 1)

\* C8: deepCopy(undefined) is undefined; deepCopy(root) returns a tree of the
\* same shape with the same data at each position, none of whose nodes is a
\* node of the source; a rotation applied afterwards to the copy leaves every
\* child link of the source unchanged, and one applied to the source leaves
\* the copy unchanged.
C8_DeepCopyIndependent ==
    /\ (AtReturn("deepCopy") /\ last.arg = NIL) =>
          /\ ret = NIL
          /\ alloc = pre.alloc
          /\ Untouched(Nodes)
    /\ (AtReturn("deepCopy") /\ last.arg # NIL) =>
          /\ ret # NIL
          /\ RetTerm = PreTerm
          /\ Range(CopyInOrder) \cap pre.alloc = {}
          /\ Range(CopyInOrder) = alloc \ pre.alloc
          /\ Cardinality(Range(CopyInOrder)) = Len(CopyInOrder)
          /\ Untouched(pre.alloc)
    /\ SourceNodes \cap CopyNodes = {}
    /\ (pc = "returned" /\ last.op \in Rotations /\ last.arg \in CopyNodes) =>
          Untouched(SourceNodes)
    /\ (pc = "returned" /\ last.op \in Rotations /\ last.arg \in SourceNodes) =>
          Untouched(CopyNodes)

\* A rotation was made on the root of a copy of three nodes, and changed it.
C8_Witness ==
    /\ pc = "returned"
    /\ last.op \in Rotations
    /\ Len(copyInorder0) = 3
    /\ last.arg = copyRoot
    /\ ret # last.arg
    /\ Untouched(SourceNodes)

\* C9: for every node a with a right child b, singleLeft(a) followed by
\* singleRight on the node it returned returns a and leaves every child link
\* of every node as it was before the first call.
C9_LeftThenRightRestores ==
    (AtReturn("singleLeft;singleRight") /\ pre.right[last.arg] # NIL) =>
        /\ ret = last.arg
        /\ LinksUnchanged
        /\ data = pre.data

\* Both rotations were made (each called its callback), b had a left child
\* that went to a and came back.
C9_Witness ==
    /\ AtReturn("singleLeft;singleRight")
    /\ pre.right[last.arg] # NIL
    /\ pre.left[pre.right[last.arg]] # NIL
    /\ Len(log) = 2
    /\ log[2].right[last.arg] = pre.left[pre.right[last.arg]]
    /\ ret = last.arg

\* Number of child links that point to n.
Parents(n) ==
    Cardinality({p \in alloc : left[p] = n}) + Cardinality({p \in alloc : right[p] = n})

\* The structure below rt is a simple binary tree whose in-order sequence
\* is seq: it reaches exactly the nodes of seq, each once (so it has no
\* cycle), rt has no parent and every other node has one.
SimpleTreeOf(rt, seq) ==
    /\ InOrder(left, right, rt, MaxNodes + 1) = seq
    /\ \A n \in Range(seq) : Parents(n) = IF n = rt THEN 0 ELSE 1

\* C10: after any finite sequence of singleLeft, singleRight, doubleLeft and
\* doubleRight calls on nodes of a simple binary tree, each returned node
\* spliced back into the parent link (or taken as the new root), the
\* structure is still a simple binary tree of exactly the original nodes,
\* with the in-order sequence it had at the start.
C10_RotationsKeepInOrder ==
    pc = "idle" =>
        /\ SimpleTreeOf(root, inorder0)
        /\ SimpleTreeOf(copyRoot, copyInorder0)
        /\ alloc = SourceNodes \cup CopyNodes
        /\ \A n \in Nodes \ alloc : left[n] = NIL /\ right[n] = NIL

\* Rotations have been spliced into a tree of three nodes since it was
\* copied: it no longer has the shape of its copy.
C10_Witness ==
    /\ pc = "idle"
    /\ Len(inorder0) = 3
    /\ Len(copyInorder0) = 3
    /\ Term(left, right, data, root, MaxNodes) # Term(left, right, data, copyRoot, MaxNodes)

====
